---- MODULE Spec2Model ----
(***************************************************************************)
(* A model of burnman/main.py: the moduli-calculation -> averaging ->      *)
(* velocity pipeline (calculate_moduli, average_moduli,                    *)
(* compute_velocities, velocities_from_rock) and the misfit scorers        *)
(* (l2, chi_factor).                                                       *)
(*                                                                         *)
(* Numbers.  A floating-point value is modelled exactly, as a pair <<n,d>>:*)
(*   d > 0   the rational n/d in lowest terms,                             *)
(*   d = 0   numpy's special values: <<1,0>> = +inf, <<-1,0>> = -inf,      *)
(*           <<0,0>> = nan,                                                *)
(*   d < 0   a slot of np.ndarray(size) that was never written.            *)
(* Rounding and signed zeros are not modelled.  Arithmetic on array        *)
(* elements follows numpy's default error state (warn, do not raise).      *)
(* Python indices are kept 0-based; At(s, i) reads s[i].                   *)
(***************************************************************************)
EXTENDS Integers, Sequences, FiniteSets, TLC

\* ---------------------------------------------------------------- bounds
\* Largest number of evaluation points / elements of an input sequence.
MaxPoints == 2
\* Largest number of phases of a rock.
MaxPhases == 2

\* ------------------------------------------------------- float arithmetic
NaN == <<0, 0>>
PosInf == <<1, 0>>
NegInf == <<-1, 0>>
Uninit == <<0, -1>>

Abs(n) == IF n < 0 THEN -n ELSE n

Sgn(n) == IF n < 0 THEN -1 ELSE IF n = 0 THEN 0 ELSE 1

RECURSIVE Gcd(_, _)
Gcd(a, b) == IF b = 0 THEN a ELSE Gcd(b, a % b)

\* n/d (d > 0) in lowest terms.
Norm(n, d) ==
    LET g == Gcd(Abs(n), d)
    IN  <<Sgn(n) * (Abs(n) \div g), d \div g>>

Num(n) == <<n, 1>>

IsNaN(a) == a[2] = 0 /\ a[1] = 0
IsInf(a) == a[2] = 0 /\ a[1] # 0
IsZero(a) == a[2] > 0 /\ a[1] = 0

FAdd(a, b) ==
    IF IsNaN(a) \/ IsNaN(b) THEN NaN
    ELSE IF IsInf(a) THEN (IF IsInf(b) /\ b # a THEN NaN ELSE a)
    ELSE IF IsInf(b) THEN b
    ELSE LET g == Gcd(a[2], b[2])
         IN  Norm(a[1] * (b[2] \div g) + b[1] * (a[2] \div g), (a[2] \div g) * b[2])

FNeg(a) == <<-a[1], a[2]>>

FSub(a, b) == FAdd(a, FNeg(b))

\* (n1/d1) * (n2/d2) for d1, d2 > 0, cancelling across before multiplying.
Times(n1, d1, n2, d2) ==
    LET g1 == Gcd(Abs(n1), d2)
        g2 == Gcd(Abs(n2), d1)
    IN  IF n1 = 0 \/ n2 = 0 THEN <<0, 1>>
        ELSE <<(n1 \div g1) * (n2 \div g2), (d1 \div g2) * (d2 \div g1)>>

FMul(a, b) ==
    IF IsNaN(a) \/ IsNaN(b) THEN NaN
    ELSE IF IsInf(a) \/ IsInf(b)
         THEN (IF a[1] = 0 \/ b[1] = 0 THEN NaN ELSE <<Sgn(a[1]) * Sgn(b[1]), 0>>)
    ELSE Times(a[1], a[2], b[1], b[2])

\* numpy float64 division: x/0 is +-inf, 0/0 is nan, no exception.
FDiv(a, b) ==
    IF IsNaN(a) \/ IsNaN(b) THEN NaN
    ELSE IF IsInf(b) THEN (IF IsInf(a) THEN NaN ELSE Num(0))
    ELSE IF IsInf(a) THEN <<Sgn(a[1]) * (IF b[1] < 0 THEN -1 ELSE 1), 0>>
    ELSE IF b[1] = 0 THEN (IF a[1] = 0 THEN NaN ELSE <<Sgn(a[1]), 0>>)
    ELSE Times(a[1], a[2], Sgn(b[1]) * b[2], Abs(b[1]))

\* np.sqrt, kept symbolic: [radicand |-> q] denotes the square root of q for
\* q >= 0 and q = +inf; the square root of a negative number, of -inf and of
\* nan is nan (numpy warns and does not raise), written [radicand |-> NaN].
FSqrt(a) ==
    [radicand |-> IF IsNaN(a) \/ a[1] < 0 THEN NaN ELSE a]

\* Python's sum() / np.sum() of a sequence of floats, left to right from 0.
RECURSIVE SumFrom(_, _)
SumFrom(s, acc) ==
    IF s = <<>> THEN acc ELSE SumFrom(Tail(s), FAdd(acc, Head(s)))

Sum(s) == SumFrom(s, Num(0))

At(s, i) == s[i + 1]

Range(n) == 0 .. (n - 1)

\* Sequences over S of length 0 .. n.
SeqsUpTo(S, n) == UNION {[1 .. k -> S] : k \in 0 .. n}

\* ------------------------------------------------ external collaborators
\* The mineral / EOS interface, the rock's set_state and the averaging
\* schemes live in modules that main.py imports (composite,
\* averaging_schemes); they are modelled from their documented interface.
Minerals == {"mg_perovskite", "periclase"}

Fractions == {Num(0), <<1, 2>>, Num(1)}

NoState == <<0, 0>>

\* Each getter reflects the rock's most recent set_state(P, T).
molar_volume(mineral, st) ==
    IF mineral = "mg_perovskite" THEN Norm(1, st[1]) ELSE Norm(2, st[1])

molar_mass(mineral, st) ==
    IF mineral = "mg_perovskite" THEN Num(4) ELSE Num(2)

adiabatic_bulk_modulus(mineral, st) ==
    IF mineral = "mg_perovskite" THEN Num(20 + 2 * st[1] + st[2])
    ELSE Num(10 + 2 * st[1] + st[2])

shear_modulus(mineral, st) ==
    IF mineral = "mg_perovskite" THEN Num(10 + st[1] + st[2])
    ELSE Num(5 + st[1] + st[2])

\* rock.set_state(pressure, temperature): the state every phase then reflects.
set_state(pressure, temperature) == <<pressure, temperature>>

Schemes == {"voigt", "reuss", "voigt_reuss_hill"}

\* Arithmetic (Voigt) and harmonic (Reuss) weighted means.
voigt_average(fr, X) ==
    Sum([p \in 1 .. Len(X) |-> FMul(fr[p], X[p])])

reuss_average(fr, X) ==
    FDiv(Num(1), Sum([p \in 1 .. Len(X) |-> FDiv(fr[p], X[p])]))

scheme_average(scheme, fr, X) ==
    CASE scheme = "voigt" -> voigt_average(fr, X)
      [] scheme = "reuss" -> reuss_average(fr, X)
      [] OTHER -> FDiv(FAdd(voigt_average(fr, X), reuss_average(fr, X)), Num(2))

average_bulk_moduli(scheme, V_frac, K_ph, G_ph) == scheme_average(scheme, V_frac, K_ph)

average_shear_moduli(scheme, V_frac, K_ph, G_ph) == scheme_average(scheme, V_frac, G_ph)

\* Total mass over total volume.
average_density(scheme, V_frac, rho_ph) ==
    FDiv(Sum([p \in 1 .. Len(rho_ph) |-> FMul(V_frac[p], rho_ph[p])]), Sum(V_frac))

\* ------------------------------------------------------ elastic_properties
Fields == {"V", "rho", "K", "G", "fraction"}

\* elastic_properties(): every field None (here the empty sequence).  Two
\* history fields record what was done to the object: sized counts the
\* set_size calls, written[f] lists the indices stored into field f, in order.
elastic_properties ==
    [V |-> <<>>, rho |-> <<>>, K |-> <<>>, G |-> <<>>, fraction |-> <<>>,
     sized |-> 0, written |-> [f \in Fields |-> <<>>]]

\* np.ndarray(size): size slots of uninitialised memory.
ndarray(size) == [k \in 1 .. size |-> Uninit]

set_size(self, size) ==
    [self EXCEPT !.V = ndarray(size), !.rho = ndarray(size), !.K = ndarray(size),
                 !.G = ndarray(size), !.fraction = ndarray(size),
                 !.sized = @ + 1, !.written = [f \in Fields |-> <<>>]]

\* self.<f>[i] = v
Store(self, f, i, v) ==
    [self EXCEPT ![f][i + 1] = v, !.written[f] = Append(@, i)]

\* ---------------------------------------------------------------- state
VARIABLES
    call,             \* the function of main.py the caller invokes
    pc,               \* the position inside it
    outcome,          \* "running", "returned" or the exception raised
    returned,         \* the functions that have returned normally
    phases, state,    \* the rock: rock.phases and its thermodynamic state
    pressures, temperatures, averaging_scheme,
    moduli,           \* calculate_moduli's list, one record per phase
    idx, midx,        \* loop indices
    moduli_list,      \* average_moduli's argument
    n_pressures,
    result,           \* average_moduli's bulk record
    bulk,             \* compute_velocities' argument
    mat_vp, mat_vs, mat_vphi,
    depth, calc, obs, \* the scorers' arguments (x, funca / calc, funcb / obs)
    score,            \* the scorers' return value
    set_state_log,    \* history: the idx of every rock.set_state call
    read_log,         \* history: every phase read, with the rock's state then
    V_frac_log        \* history: the weights handed to the scheme, per idx

rockVars == <<phases, state>>
cmVars == <<moduli, set_state_log, read_log>>
amVars == <<moduli_list, n_pressures, result, V_frac_log>>
cvVars == <<bulk, mat_vp, mat_vs, mat_vphi>>
scoreVars == <<depth, calc, obs, score>>
argVars == <<call, pressures, temperatures, averaging_scheme>>
vars == <<call, pc, outcome, returned, phases, state, pressures, temperatures,
          averaging_scheme, moduli, idx, midx, moduli_list, n_pressures, result,
          bulk, mat_vp, mat_vs, mat_vphi, depth, calc, obs, score,
          set_state_log, read_log, V_frac_log>>

\* ---------------------------------------------------------------- inputs
\* A phase entry: a mineral and its molar fraction.
PhaseEntries == [mineral : Minerals, fraction : Fractions]

Rocks == SeqsUpTo(PhaseEntries, MaxPhases)

\* The i-th pressure and temperature of the evaluation profile (i from 0).
Pressure(i) == i + 1
Temperature(i) == i + 3

Profile(F(_), n) == [k \in 1 .. n |-> F(k - 1)]

\* ------------------------------------------------------- calculate_moduli
\* A slip in line 48: the temperature of the first point at every index.
StateAt_stale(i) == set_state(At(pressures, i), At(temperatures, 0))

\* The arguments of rock.set_state at index i.
StateAt(i) == set_state(At(pressures, i), At(temperatures, i))

\* What lines 53-57 read from phase ph while the rock is in state st.
PhaseValues(ph, st) ==
    [V |-> FMul(ph.fraction, molar_volume(ph.mineral, st)),
     K |-> adiabatic_bulk_modulus(ph.mineral, st),
     G |-> shear_modulus(ph.mineral, st),
     rho |-> FDiv(molar_mass(ph.mineral, st), molar_volume(ph.mineral, st)),
     fraction |-> ph.fraction]

\* A slip in lines 53-57 / 87-91: the store into fraction left out.
StoreAll_skip(m, i, vals) ==
    Store(Store(Store(Store(m, "V", i, vals.V), "K", i, vals.K),
                "G", i, vals.G), "rho", i, vals.rho)

\* m.V[i] = ..; m.K[i] = ..; m.G[i] = ..; m.rho[i] = ..; m.fraction[i] = ..
StoreAll(m, i, vals) ==
    Store(Store(Store(Store(Store(m, "V", i, vals.V), "K", i, vals.K),
                      "G", i, vals.G), "rho", i, vals.rho),
          "fraction", i, vals.fraction)

Raise(exc) ==
    /\ outcome' = exc
    /\ pc' = "done"

\* Lines 43-45: one record per phase, each sized to len(pressures).
cm_alloc ==
    /\ pc = "cm_alloc"
    /\ moduli' = [p \in 1 .. Len(phases) |-> set_size(elastic_properties, Len(pressures))]
    /\ idx' = 0
    /\ pc' = "cm_idx"
    /\ UNCHANGED <<outcome, returned, rockVars, argVars, midx, set_state_log, read_log,
                   amVars, cvVars, scoreVars>>

\* Lines 47-48: the next index; temperatures[idx] raises IndexError when
\* temperatures is shorter than pressures.
cm_set_state ==
    /\ pc = "cm_idx"
    /\ idx < Len(pressures)
    /\ IF idx < Len(temperatures)
       THEN /\ state' = StateAt(idx)
            /\ set_state_log' = Append(set_state_log, idx)
            /\ midx' = 0
            /\ pc' = "cm_midx"
            /\ UNCHANGED outcome
       ELSE /\ Raise("IndexError")
            /\ UNCHANGED <<state, set_state_log, midx>>
    /\ UNCHANGED <<returned, phases, argVars, moduli, idx, read_log,
                   amVars, cvVars, scoreVars>>

\* Lines 50-57: read phase midx under the rock's current state and store its
\* values at idx.
cm_phase ==
    /\ pc = "cm_midx"
    /\ midx < Len(moduli)
    /\ LET ph == At(phases, midx)
       IN  /\ moduli' = [moduli EXCEPT ![midx + 1] = StoreAll(@, idx, PhaseValues(ph, state))]
           /\ read_log' = Append(read_log, [idx |-> idx, midx |-> midx, state |-> state])
    /\ midx' = midx + 1
    /\ UNCHANGED <<pc, outcome, returned, rockVars, argVars, idx, set_state_log,
                   amVars, cvVars, scoreVars>>

\* Line 50 exhausted: back to line 47.
cm_next_idx ==
    /\ pc = "cm_midx"
    /\ midx = Len(moduli)
    /\ idx' = idx + 1
    /\ pc' = "cm_idx"
    /\ UNCHANGED <<outcome, returned, rockVars, argVars, cmVars, midx,
                   amVars, cvVars, scoreVars>>

\* A variant of line 59 that puts the rock back into the state it had
\* before the call.
cm_return_restore ==
    /\ pc = "cm_idx"
    /\ idx = Len(pressures)
    /\ returned' = returned \cup {"calculate_moduli"}
    /\ moduli_list' = moduli
    /\ state' = NoState
    /\ pc' = "am_alloc"
    /\ UNCHANGED <<outcome, phases, argVars, cmVars, idx, midx,
                   n_pressures, result, V_frac_log, cvVars, scoreVars>>

\* Line 59, and line 122-123 of velocities_from_rock: the list goes to
\* average_moduli.
cm_return ==
    /\ pc = "cm_idx"
    /\ idx = Len(pressures)
    /\ returned' = returned \cup {"calculate_moduli"}
    /\ moduli_list' = moduli
    /\ pc' = "am_alloc"
    /\ UNCHANGED <<outcome, rockVars, argVars, cmVars, idx, midx,
                   n_pressures, result, V_frac_log, cvVars, scoreVars>>

\* --------------------------------------------------------- average_moduli
\* [m.<f>[i] for m in moduli_list]
Column(list, f, i) == [p \in 1 .. Len(list) |-> At(list[p][f], i)]

\* Line 80: V_mol = np.array(V_ph) * np.array(fractions)
VolumeContributions(V_ph, fractions) ==
    [p \in 1 .. Len(V_ph) |-> FMul(V_ph[p], fractions[p])]

\* A slip in line 81: the normalisation left out.
VolumeFractions_raw(V_mol) == V_mol

\* Line 81: V_frac = V_mol / sum(V_mol), numpy's elementwise division.
VolumeFractions(V_mol) ==
    [p \in 1 .. Len(V_mol) |-> FDiv(V_mol[p], Sum(V_mol))]

\* Lines 71-73: moduli_list[0] raises IndexError on an empty list.
am_alloc ==
    /\ pc = "am_alloc"
    /\ IF moduli_list = <<>>
       THEN /\ Raise("IndexError")
            /\ UNCHANGED <<n_pressures, result, idx>>
       ELSE /\ n_pressures' = Len(moduli_list[1].V)
            /\ result' = set_size(elastic_properties, Len(moduli_list[1].V))
            /\ idx' = 0
            /\ pc' = "am_idx"
            /\ UNCHANGED outcome
    /\ UNCHANGED <<returned, rockVars, argVars, cmVars, midx, moduli_list, V_frac_log,
                   cvVars, scoreVars>>

\* Lines 75-91 for one idx; m.<f>[idx] raises IndexError on a record shorter
\* than the first one.
am_step ==
    /\ pc = "am_idx"
    /\ idx < n_pressures
    /\ IF \E p \in 1 .. Len(moduli_list) : \E f \in Fields : Len(moduli_list[p][f]) <= idx
       THEN /\ Raise("IndexError")
            /\ UNCHANGED <<result, idx, V_frac_log>>
       ELSE LET fractions == Column(moduli_list, "fraction", idx)
                V_ph == Column(moduli_list, "V", idx)
                V_mol == VolumeContributions(V_ph, fractions)
                V_frac == VolumeFractions(V_mol)
                K_ph == Column(moduli_list, "K", idx)
                G_ph == Column(moduli_list, "G", idx)
                rho_ph == Column(moduli_list, "rho", idx)
            IN  /\ result' = StoreAll(result, idx,
                       [V |-> Sum(V_mol),
                        K |-> average_bulk_moduli(averaging_scheme, V_frac, K_ph, G_ph),
                        G |-> average_shear_moduli(averaging_scheme, V_frac, K_ph, G_ph),
                        rho |-> average_density(averaging_scheme, V_frac, rho_ph),
                        fraction |-> Num(1)])
                /\ V_frac_log' = Append(V_frac_log, V_frac)
                /\ idx' = idx + 1
                /\ UNCHANGED <<pc, outcome>>
    /\ UNCHANGED <<returned, rockVars, argVars, cmVars, midx, moduli_list, n_pressures,
                   cvVars, scoreVars>>

\* Line 93; under velocities_from_rock (lines 123-124) the bulk record goes
\* to compute_velocities.
am_return ==
    /\ pc = "am_idx"
    /\ idx = n_pressures
    /\ returned' = returned \cup {"average_moduli"}
    /\ IF call = "velocities_from_rock"
       THEN /\ bulk' = result
            /\ pc' = "cv_alloc"
            /\ UNCHANGED outcome
       ELSE /\ outcome' = "returned"
            /\ pc' = "done"
            /\ UNCHANGED bulk
    /\ UNCHANGED <<rockVars, argVars, cmVars, idx, midx, amVars,
                   mat_vp, mat_vs, mat_vphi, scoreVars>>

\* ------------------------------------------------------ compute_velocities
\* Lines 101-103.
cv_alloc ==
    /\ pc = "cv_alloc"
    /\ mat_vs' = [k \in 1 .. Len(bulk.V) |-> [radicand |-> Uninit]]
    /\ mat_vp' = [k \in 1 .. Len(bulk.V) |-> [radicand |-> Uninit]]
    /\ mat_vphi' = [k \in 1 .. Len(bulk.V) |-> [radicand |-> Uninit]]
    /\ idx' = 0
    /\ pc' = "cv_idx"
    /\ UNCHANGED <<outcome, returned, rockVars, argVars, cmVars, midx, amVars, bulk,
                   scoreVars>>

\* Lines 107-109 for one record: Vs, Vp, Vphi.
Velocities(K, G, rho) ==
    [vs |-> FSqrt(FDiv(G, rho)),
     vp |-> FSqrt(FDiv(FAdd(K, FMul(<<4, 3>>, G)), rho)),
     vphi |-> FSqrt(FDiv(K, rho))]

\* Lines 105-109 for one i.
cv_step ==
    /\ pc = "cv_idx"
    /\ idx < Len(bulk.V)
    /\ IF \E f \in {"G", "K", "rho"} : Len(bulk[f]) <= idx
       THEN /\ Raise("IndexError")
            /\ UNCHANGED <<mat_vs, mat_vp, mat_vphi, idx>>
       ELSE LET v == Velocities(At(bulk.K, idx), At(bulk.G, idx), At(bulk.rho, idx))
            IN  /\ mat_vs' = [mat_vs EXCEPT ![idx + 1] = v.vs]
                /\ mat_vp' = [mat_vp EXCEPT ![idx + 1] = v.vp]
                /\ mat_vphi' = [mat_vphi EXCEPT ![idx + 1] = v.vphi]
                /\ idx' = idx + 1
                /\ UNCHANGED <<pc, outcome>>
    /\ UNCHANGED <<returned, rockVars, argVars, cmVars, midx, amVars, bulk, scoreVars>>

\* Line 111 (and line 125 of velocities_from_rock).
cv_return ==
    /\ pc = "cv_idx"
    /\ idx = Len(bulk.V)
    /\ returned' = returned \cup {"compute_velocities"}
    /\ outcome' = "returned"
    /\ pc' = "done"
    /\ UNCHANGED <<rockVars, argVars, cmVars, idx, midx, amVars, cvVars, scoreVars>>

\* ------------------------------------------------------------ chi_factor
\* np.mean(obs)
Mean(s) == FDiv(Sum(s), Num(Len(s)))

\* Line 181: pow((calc[i]-obs[i]) / (0.01*np.mean(obs)), 2.)
ChiTerm(c, o, mean) ==
    LET q == FDiv(FSub(c, o), FMul(<<1, 100>>, mean))
    IN  FMul(q, q)

\* Lines 179-185: obs[i] raises IndexError when obs is shorter than calc;
\* otherwise the loop runs over len(calc) only.
chi_factor ==
    /\ pc = "chi_factor"
    /\ IF Len(obs) < Len(calc)
       THEN /\ Raise("IndexError")
            /\ UNCHANGED <<score, returned>>
       ELSE LET err == [i \in 1 .. Len(calc) |-> ChiTerm(calc[i], obs[i], Mean(obs))]
            IN  /\ score' = FDiv(Sum(err), Num(Len(err)))
                /\ returned' = returned \cup {"chi_factor"}
                /\ outcome' = "returned"
                /\ pc' = "done"
    /\ UNCHANGED <<rockVars, argVars, cmVars, idx, midx, amVars, cvVars,
                   depth, calc, obs>>

\* -------------------------------------------------------------------- l2
\* The length numpy broadcasts two 1-d arrays of lengths a and b to, or -1
\* when it raises ValueError (operands could not be broadcast together).
BroadcastLen(a, b) ==
    IF a = b THEN a ELSE IF a = 1 THEN b ELSE IF b = 1 THEN a ELSE -1

\* Element k of a 1-d array broadcast to a longer length.
Elt(s, k) == IF Len(s) = 1 THEN s[1] ELSE s[k]

\* Line 169: funca - funcb.
Diff(funca, funcb) ==
    [k \in 1 .. BroadcastLen(Len(funca), Len(funcb)) |-> FSub(Elt(funca, k), Elt(funcb, k))]

\* integrate.trapz(y, x): sum(diff(x) * (y[1:] + y[:-1]) / 2).
TrapzLen(y, x) ==
    BroadcastLen(Len(x) - 1, IF Len(y) = 0 THEN 0 ELSE Len(y) - 1)

Trapz(y, x) ==
    LET d == [k \in 1 .. Len(x) - 1 |-> FSub(x[k + 1], x[k])]
        ys == [k \in 1 .. Len(y) - 1 |-> FAdd(y[k + 1], y[k])]
    IN  Sum([k \in 1 .. TrapzLen(y, x) |->
                FDiv(FMul(Elt(d, k), Elt(ys, k)), Num(2))])

\* Lines 169-173.
l2 ==
    /\ pc = "l2"
    /\ LET diff == Diff(calc, obs)
           sq == [k \in 1 .. Len(diff) |-> FMul(diff[k], diff[k])]
           length == FSub(depth[Len(depth)], depth[1])
       IN  IF BroadcastLen(Len(calc), Len(obs)) < 0
           THEN /\ Raise("ValueError")
                /\ UNCHANGED <<score, returned>>
           ELSE IF depth = <<>>
           THEN /\ Raise("IndexError")
                /\ UNCHANGED <<score, returned>>
           ELSE IF length[1] <= 0
           THEN /\ Raise("AssertionError")
                /\ UNCHANGED <<score, returned>>
           ELSE IF TrapzLen(sq, depth) < 0
           THEN /\ Raise("ValueError")
                /\ UNCHANGED <<score, returned>>
           ELSE /\ score' = FDiv(Trapz(sq, depth), length)
                /\ returned' = returned \cup {"l2"}
                /\ outcome' = "returned"
                /\ pc' = "done"
    /\ UNCHANGED <<rockVars, argVars, cmVars, idx, midx, amVars, cvVars,
                   depth, calc, obs>>

\* ------------------------------------------------------------------ Init
\* A record sized to Len(rows) and filled, row by row, in one forward pass.
RECURSIVE FillFrom(_, _, _)
FillFrom(m, rows, i) ==
    IF i = Len(rows) THEN m ELSE FillFrom(StoreAll(m, i, At(rows, i)), rows, i + 1)

RecordOf(rows) == FillFrom(set_size(elastic_properties, Len(rows)), rows, 0)

\* The record calculate_moduli produces for phase ph over the first n points
\* of the evaluation profile.
PhaseRecord(ph, n) ==
    RecordOf([k \in 1 .. n |->
                 PhaseValues(ph, set_state(Pressure(k - 1), Temperature(k - 1)))])

\* Bulk values handed to compute_velocities directly, unphysical ones included.
BulkRows ==
    {[V |-> Num(1), K |-> Num(k), G |-> Num(g), rho |-> Num(r), fraction |-> Num(1)] :
        k \in {-1, 2}, g \in {-1, 0, 1}, r \in {-1, 0, 1}}

ProfileValues == {Num(1), Num(2)}

InitCommon ==
    /\ outcome = "running"
    /\ returned = {}
    /\ state = NoState
    /\ moduli = <<>>
    /\ idx = 0
    /\ midx = 0
    /\ n_pressures = 0
    /\ result = elastic_properties
    /\ mat_vp = <<>>
    /\ mat_vs = <<>>
    /\ mat_vphi = <<>>
    /\ score = Uninit
    /\ set_state_log = <<>>
    /\ read_log = <<>>
    /\ V_frac_log = <<>>

\* velocities_from_rock(rock, pressures, temperatures, averaging_scheme)
InitRock ==
    /\ call = "velocities_from_rock"
    /\ pc = "cm_alloc"
    /\ phases \in Rocks
    /\ \E n \in 0 .. MaxPoints : pressures = Profile(Pressure, n)
    /\ \E n \in 0 .. MaxPoints : temperatures = Profile(Temperature, n)
    /\ averaging_scheme \in Schemes
    /\ moduli_list = <<>>
    /\ bulk = elastic_properties
    /\ depth = <<>> /\ calc = <<>> /\ obs = <<>>

\* average_moduli(moduli_list, averaging_scheme) on per-phase records whose
\* lengths need not agree.
InitAverage ==
    /\ call = "average_moduli"
    /\ pc = "am_alloc"
    /\ phases = <<>>
    /\ pressures = <<>> /\ temperatures = <<>>
    /\ averaging_scheme \in Schemes
    /\ \E rock \in Rocks : \E lens \in [1 .. Len(rock) -> 0 .. MaxPoints] :
           moduli_list = [p \in 1 .. Len(rock) |-> PhaseRecord(rock[p], lens[p])]
    /\ bulk = elastic_properties
    /\ depth = <<>> /\ calc = <<>> /\ obs = <<>>

\* compute_velocities(moduli)
InitVelocities ==
    /\ call = "compute_velocities"
    /\ pc = "cv_alloc"
    /\ phases = <<>>
    /\ pressures = <<>> /\ temperatures = <<>>
    /\ averaging_scheme = "voigt_reuss_hill"
    /\ moduli_list = <<>>
    /\ \E rows \in SeqsUpTo(BulkRows, MaxPoints) : bulk = RecordOf(rows)
    /\ depth = <<>> /\ calc = <<>> /\ obs = <<>>

\* chi_factor(calc, obs) and l2(x, funca, funcb), which compare_chifactor and
\* compare_l2 call once per profile.
InitScore ==
    /\ call \in {"chi_factor", "l2"}
    /\ pc = call
    /\ phases = <<>>
    /\ pressures = <<>> /\ temperatures = <<>>
    /\ averaging_scheme = "voigt_reuss_hill"
    /\ moduli_list = <<>>
    /\ bulk = elastic_properties
    /\ calc \in SeqsUpTo(ProfileValues, MaxPoints)
    /\ obs \in SeqsUpTo(ProfileValues, MaxPoints)
    /\ depth \in IF call = "l2" THEN SeqsUpTo(ProfileValues, MaxPoints) ELSE {<<>>}

Init ==
    /\ InitCommon
    /\ (InitRock \/ InitAverage \/ InitVelocities \/ InitScore)

Next ==
    \/ cm_alloc
    \/ cm_set_state
    \/ cm_phase
    \/ cm_next_idx
    \/ cm_return
    \/ am_alloc
    \/ am_step
    \/ am_return
    \/ cv_alloc
    \/ cv_step
    \/ cv_return
    \/ chi_factor
    \/ l2

Spec == Init /\ [][Next]_vars

\* ---------------------------------------------------------------- claims
Pipeline == call = "velocities_from_rock"
CMReturned == "calculate_moduli" \in returned
AMReturned == "average_moduli" \in returned
CVReturned == "compute_velocities" \in returned

\* The number of times v occurs in s.
Count(s, v) == Cardinality({k \in 1 .. Len(s) : s[k] = v})

\* 0, 1, ..., n-1
Forward(n) == [k \in 1 .. n |-> k - 1]

\* C1: in calculate_moduli, rock.set_state(pressures[i], temperatures[i]) is
\* called exactly once for every index i and before any phase is read for i,
\* and every value stored at index i of a phase's record was read while the
\* rock's state was (pressures[i], temperatures[i]).
C1_ReadsFollowSetState ==
    /\ \A i \in Range(Len(pressures)) : Count(set_state_log, i) <= 1
    /\ \A k \in 1 .. Len(read_log) :
          LET r == read_log[k]
              st == <<At(pressures, r.idx), At(temperatures, r.idx)>>
              ph == At(phases, r.midx)
          IN  /\ Count(set_state_log, r.idx) = 1
              /\ r.state = st
              /\ \A f \in Fields :
                    At(moduli[r.midx + 1][f], r.idx) = PhaseValues(ph, st)[f]
    /\ CMReturned =>
          /\ set_state_log = Forward(Len(pressures))
          /\ \A i \in Range(Len(pressures)) : \A m \in Range(Len(phases)) :
                Count([k \in 1 .. Len(read_log) |-> <<read_log[k].idx, read_log[k].midx>>],
                      <<i, m>>) = 1

C1_Witness ==
    /\ CMReturned
    /\ Len(pressures) >= 2
    /\ Len(phases) >= 2
    /\ Len(read_log) = Len(pressures) * Len(phases)

\* C2: for a rock with a single phase of fraction 1.0, calculate_moduli and
\* then average_moduli give, at every index, a bulk record whose K, G, rho
\* and V are that phase's own (Voigt, Reuss and Voigt-Reuss-Hill).
C2_SinglePhaseReproduced ==
    (Pipeline /\ AMReturned /\ Len(phases) = 1 /\ phases[1].fraction = Num(1)) =>
        /\ n_pressures = Len(pressures)
        /\ \A i \in Range(n_pressures) : \A f \in {"K", "G", "rho", "V"} :
              At(result[f], i) = At(moduli_list[1][f], i)

C2_Witness ==
    /\ Pipeline /\ AMReturned
    /\ Len(phases) = 1 /\ phases[1].fraction = Num(1)
    /\ averaging_scheme = "reuss"
    /\ n_pressures >= 2

\* The volume phase p of the rock occupies at evaluation index i: its molar
\* fraction times its molar volume there.
PhaseVolumes(i) ==
    [p \in 1 .. Len(phases) |->
        FMul(phases[p].fraction,
             molar_volume(phases[p].mineral, <<At(pressures, i), At(temperatures, i)>>))]

\* C3: the weight handed to the averaging scheme for phase p is that phase's
\* share of the bulk volume, fraction[p] * molar_volume[p] over the sum of
\* fraction[q] * molar_volume[q], and the bulk V is that sum (the total volume).
C3_WeightsAreVolumeShares ==
    (Pipeline /\ AMReturned) =>
        \A i \in Range(n_pressures) :
            LET vol == PhaseVolumes(i)
            IN  /\ V_frac_log[i + 1] = [p \in 1 .. Len(phases) |-> FDiv(vol[p], Sum(vol))]
                /\ At(result.V, i) = Sum(vol)

\* The inputs whose lengths disagree: per-phase sets for average_moduli, the
\* computed and the observed profile for the scorers.
MismatchedLengths ==
    \/ /\ call = "average_moduli"
       /\ \E p, q \in 1 .. Len(moduli_list) : Len(moduli_list[p].V) # Len(moduli_list[q].V)
    \/ /\ call \in {"chi_factor", "l2"}
       /\ Len(calc) # Len(obs)

\* C4: mismatched-length inputs never produce a result: average_moduli and
\* the misfit scorers end in an error, never in a value computed over a
\* prefix of the longer input.
C4_MismatchedLengthsFail ==
    MismatchedLengths => outcome # "returned"

\* C5: calculate_moduli on a rock whose phase list is empty fails; it never
\* returns a result.
C5_EmptyRockFails ==
    CMReturned => phases # <<>>

\* sum(V_mol) at index i of average_moduli's argument.
TotalContribution(i) ==
    Sum(VolumeContributions(Column(moduli_list, "V", i), Column(moduli_list, "fraction", i)))

\* C6: in average_moduli, a zero sum of the phases' V_mol at some index makes
\* the call fail: no division by it is carried out, no bulk record returned.
C6_ZeroVolumeFails ==
    AMReturned => \A i \in Range(n_pressures) : ~IsZero(TotalContribution(i))

Positive(a) == (a[2] > 0 /\ a[1] > 0) \/ a = PosInf
Negative(a) == (a[2] > 0 /\ a[1] < 0) \/ a = NegInf

\* Index i of the record handed to compute_velocities is invalid: rho is not
\* strictly positive, or a quantity under a square root is negative.
InvalidAt(i) ==
    LET K == At(bulk.K, i)
        G == At(bulk.G, i)
        rho == At(bulk.rho, i)
    IN  \/ ~Positive(rho)
        \/ Negative(FDiv(G, rho))
        \/ Negative(FDiv(FAdd(K, FMul(<<4, 3>>, G)), rho))
        \/ Negative(FDiv(K, rho))

\* C7: compute_velocities fails, returning no velocity sequences, whenever at
\* some index rho is not strictly positive or a quantity under a square root
\* is negative.
C7_InvalidRecordFails ==
    CVReturned => \A i \in Range(Len(bulk.V)) : ~InvalidAt(i)

\* C8: calculate_moduli fails when pressures and temperatures differ in
\* length or are empty; it never returns records then.
C8_LengthsEnforced ==
    CMReturned => (Len(pressures) = Len(temperatures) /\ Len(pressures) >= 1)

\* A record sized once, its five sequences of length n, every index
\* 0 .. n-1 of every field written exactly once in increasing order.
FilledForward(r, n) ==
    /\ r.sized = 1
    /\ \A f \in Fields :
          /\ Len(r[f]) = n
          /\ r.written[f] = Forward(n)
          /\ \A k \in 1 .. n : r[f][k] # Uninit

\* A record being filled: sized once, every field of length n, the indices
\* written so far an initial segment of 0 .. n-1 in order.
FillingForward(r, n) ==
    /\ r.sized = 1
    /\ \A f \in Fields :
          /\ Len(r[f]) = n
          /\ Len(r.written[f]) <= n
          /\ r.written[f] = Forward(Len(r.written[f]))

\* C9: every record returned by calculate_moduli and by average_moduli has
\* its five sequences of the same length, the number of evaluation points;
\* it is sized once by set_size before the loop and every index of all five
\* fields is written exactly once, in increasing order, before the return.
C9_RecordsFilledOnce ==
    /\ \A p \in 1 .. Len(moduli) : FillingForward(moduli[p], Len(pressures))
    /\ result.sized > 0 => FillingForward(result, n_pressures)
    /\ CMReturned => \A p \in 1 .. Len(moduli) : FilledForward(moduli[p], Len(pressures))
    /\ AMReturned =>
          /\ FilledForward(result, n_pressures)
          /\ n_pressures = Len(moduli_list[1].V)
          /\ Pipeline => n_pressures = Len(pressures)

C9_Witness ==
    /\ Pipeline /\ AMReturned
    /\ Len(moduli) >= 2
    /\ n_pressures >= 2

\* C10: when calculate_moduli returns normally for n >= 1 evaluation points
\* the rock's state is (pressures[n-1], temperatures[n-1]), not the state it
\* had before the call, and nothing else of the rock has changed: no step
\* changes the phase list or a phase's fraction.
C10_StateLeftAtLastPoint ==
    /\ [](CMReturned /\ Len(pressures) >= 1 =>
            /\ state = <<At(pressures, Len(pressures) - 1),
                         At(temperatures, Len(pressures) - 1)>>
            /\ state # NoState)
    /\ [][phases' = phases]_vars

C10_Witness ==
    /\ CMReturned
    /\ Len(pressures) >= 2
    /\ phases # <<>>
    /\ state = <<Pressure(Len(pressures) - 1), Temperature(Len(pressures) - 1)>>

====
